---- MODULE Spec2Model ----
(***************************************************************************)
(* The dominoes rules engine of models.py: Tile, Path, Player/AI, Board    *)
(* and the Game thread (run, start_round, make_move, make_opening_move,    *)
(* write_down_scores), with the configuration values of config.py.         *)
(***************************************************************************)
EXTENDS Integers, Sequences, FiniteSets, TLC

\* ------------------------------------------------------------ bounds
\* states of the random generator a match may start from: 0..MaxSeed
MaxSeed == 3
\* rounds of a match of AI players that the model follows
MaxRounds == 3
\* rounds of a match with an interactive player that the model follows
MaxInteractiveRounds == 1

\* matches shown in a view start from the random states 0..MaxViewSeed
MaxViewSeed == 0

\* ------------------------------------------------- program constants
\* range(7) in start_round and make_opening_move: faces 0..6
FaceCount == 7
\* Player.is_a_goat: self.score >= 101
GoatLimit == 101
\* Board.add_starting_tile: range(4) paths for a double
DoublePaths == 4

Faces == 0..(FaceCount - 1)

\* ------------------------------------------------------------- Tile
\* A Tile is the pair <<x, y>>; Tile.__eq__ compares x with x and y with y.
is_double(t) == t[1] = t[2]

weight(t) == t[1] + t[2]

\* Tile.__eq__: the first faces are equal and the second faces are equal
TileEq(a, b) == a[1] = b[1] /\ a[2] = b[2]

\* Tile.__gt__
TileGt(a, b) == a[1] >= b[1] /\ a[2] > b[2]

\* the local variables move / tile when no tile is held
NoTile == <<-1, -1>>

\* ------------------------------------------------------ sequences
Range(s) == {s[k] : k \in 1..Len(s)}

\* list.index(v) (1-based), for v in s
IndexOf(s, v) == CHOOSE k \in 1..Len(s) : s[k] = v /\ \A m \in 1..(k - 1) : s[m] # v

\* list.pop(k) (1-based): the list without its k-th element
RemoveAt(s, k) == [m \in 1..(Len(s) - 1) |-> IF m < k THEN s[m] ELSE s[m + 1]]

Swap(s, a, b) == [s EXCEPT ![a] = s[b], ![b] = s[a]]

RECURSIVE SumSeq(_)
SumSeq(s) == IF s = <<>> THEN 0 ELSE s[1] + SumSeq(Tail(s))

\* ------------------------------------------------------- the stock
\* combinations_with_replacement(range(7), 2): (0,0),(0,1),...,(0,6),(1,1),...,(6,6)
RECURSIVE CombinationsFrom(_, _)
CombinationsFrom(x, y) ==
    IF x >= FaceCount THEN <<>>
    ELSE IF y >= FaceCount THEN CombinationsFrom(x + 1, x + 1)
    ELSE <<(<<x, y>>)>> \o CombinationsFrom(x, y + 1)

FullStock == CombinationsFrom(0, 0)

\* The k-th draw of the random stream `seed`: random.shuffle asks for an index
\* below k + 1 for k = len - 1 down to 1.
RandBelow(seed, k) == (6 * seed * seed + 5 * seed * (k + 4) + 2 * k * k) % (k + 1)

\* random.shuffle: Fisher-Yates from the last position down (positions 0-based
\* in the code, 1-based here)
RECURSIVE ShuffleFrom(_, _, _)
ShuffleFrom(s, seed, k) ==
    IF k < 1 THEN s
    ELSE ShuffleFrom(Swap(s, k + 1, RandBelow(seed, k) + 1), seed, k - 1)

Shuffle(s, seed) == ShuffleFrom(s, seed, Len(s) - 1)

Seeds == 0..MaxSeed

\* the state of the random generator after one more shuffle
NextSeed(seed) == (seed + 1) % (MaxSeed + 1)

\* ------------------------------------------------------------- Path
Path(index, value, depth) == [index |-> index, value |-> value, depth |-> depth]

\* ----------------------------------------------------------- Player
\* Player.get_total_weight
get_total_weight(h) == SumSeq([k \in 1..Len(h) |-> weight(h[k])])

\* mutant of take_tile_out_of_hand: the tile is returned but stays in the hand
take_tile_left_in_hand(h, t) == h

\* Player.take_tile_out_of_hand: the hand without the first tile equal to `t`
\* (the hand itself when it holds no such tile)
take_tile_out_of_hand(h, t) == IF t \in Range(h) THEN RemoveAt(h, IndexOf(h, t)) ELSE h

\* Player.get_highest_rank_tile: first of the hand sorted by (x, y), descending
get_highest_rank_tile(h) ==
    CHOOSE t \in Range(h) :
        \A u \in Range(h) : t[1] > u[1] \/ (t[1] = u[1] /\ t[2] >= u[2])

\* Player.is_a_goat
is_a_goat(s) == s >= GoatLimit

\* Player.choose_tile, the test of an interactive move: in the hand and suitable
\* (`in` compares with Tile.__eq__)
ValidMove(m, h, suitable_tiles) ==
    /\ \E k \in 1..Len(h) : TileEq(h[k], m)
    /\ \E k \in 1..Len(suitable_tiles) : TileEq(suitable_tiles[k], m)

\* what input() can deliver as a move: any two faces, in either order
Inputs == Faces \X Faces

\* mutant of HighestWeightTile: of the tiles of the highest weight, the last
HighestWeightTileLastOfTies(suitable_tiles) ==
    suitable_tiles[CHOOSE k \in 1..Len(suitable_tiles) :
        /\ \A m \in 1..Len(suitable_tiles) : weight(suitable_tiles[m]) <= weight(suitable_tiles[k])
        /\ \A m \in (k + 1)..Len(suitable_tiles) : weight(suitable_tiles[m]) < weight(suitable_tiles[k])]

\* AI.choose_tile at difficulty 1: sorted by weight, descending (stable), first
HighestWeightTile(suitable_tiles) ==
    suitable_tiles[CHOOSE k \in 1..Len(suitable_tiles) :
        /\ \A m \in 1..Len(suitable_tiles) : weight(suitable_tiles[m]) <= weight(suitable_tiles[k])
        /\ \A m \in 1..(k - 1) : weight(suitable_tiles[m]) < weight(suitable_tiles[k])]

\* ------------------------------------------------------------ Board
\* mutant of add_starting_tile: a double opens two paths like any other tile
add_starting_tile_two_paths(t) == <<Path(0, t[1], 1), Path(1, t[2], 1)>>

\* Board.add_starting_tile: the paths it creates
add_starting_tile(t) ==
    IF is_double(t)
    THEN [k \in 1..DoublePaths |-> Path(k - 1, t[1], 1)]
    ELSE <<Path(0, t[1], 1), Path(1, t[2], 1)>>

\* process_new_tile: positions of the paths the tile fits
FittingPaths(ps, t) == {k \in 1..Len(ps) : t[1] = ps[k].value \/ t[2] = ps[k].value}

\* process_new_tile: len(set(x.value for x in paths))
unique_values_count(ps, t) == Cardinality({ps[k].value : k \in FittingPaths(ps, t)})

\* mutant of PathsWithValue: the comparison with the chosen value is inverted
PathsWithoutValue(ps, v) == {k \in 1..Len(ps) : ps[k].value # v}

\* process_new_tile: positions of the paths with the chosen connecting value
PathsWithValue(ps, v) == {k \in 1..Len(ps) : ps[k].value = v}

\* mutant of FirstByDepth: the sort is descending, the deepest path comes first
FirstByDepthDescending(ps, cands) ==
    CHOOSE k \in cands :
        \A m \in cands : ps[k].depth > ps[m].depth \/ (ps[k].depth = ps[m].depth /\ k <= m)

\* paths.sort(key=depth) is stable and the candidates are in path order: the
\* first of the sorted list has the lowest depth, and the lowest position among those
FirstByDepth(ps, cands) ==
    CHOOSE k \in cands :
        \A m \in cands : ps[k].depth < ps[m].depth \/ (ps[k].depth = ps[m].depth /\ k <= m)

\* chosen_path = self.paths[paths[0].index]
ChosenPath(ps, cands) == ps[FirstByDepth(ps, cands)].index + 1

\* mutant of ExtendPath: the value is updated, the depth is not
ExtendPathSameDepth(ps, k, t) ==
    [ps EXCEPT ![k] = Path(@.index, IF t[1] = @.value THEN t[2] ELSE t[1], @.depth)]

\* the update of the chosen path: the other face, one deeper
ExtendPath(ps, k, t) ==
    [ps EXCEPT ![k] = Path(@.index, IF t[1] = @.value THEN t[2] ELSE t[1], @.depth + 1)]

\* ------------------------------------------------------------- Game
\* mutant of get_suitable_tiles: only the first face of a tile is compared
get_suitable_tiles_first_face(h, ps) ==
    LET openings == {ps[k].value : k \in 1..Len(ps)}
        Fits(t) == t[1] \in openings
    IN  SelectSeq(h, Fits)

\* Game.get_suitable_tiles
get_suitable_tiles(h, ps) ==
    LET openings == {ps[k].value : k \in 1..Len(ps)}
        Fits(t) == t[1] \in openings \/ t[2] \in openings
    IN  SelectSeq(h, Fits)

\* mutant of Doubles: the doubles in the order of range(7), 0-0 first
DoublesFromZero == [k \in 1..FaceCount |-> <<k - 1, k - 1>>]

\* make_opening_move: [Tile(i, i) for i in range(1, 7)] + [Tile(0, 0)]
Doubles == [k \in 1..FaceCount |-> IF k < FaceCount THEN <<k, k>> ELSE <<0, 0>>]

\* make_opening_move, the first loop: <<double, position of its holder>> for the
\* first double of Doubles some player holds (the first such player), <<NoTile, 0>>
\* when no player holds a double
FirstDouble(order, hands) ==
    LET held == {d \in 1..FaceCount : \E k \in 1..Len(order) : Doubles[d] \in Range(hands[order[k]])}
    IN  IF held = {} THEN <<NoTile, 0>>
        ELSE LET d == CHOOSE d \in held : \A e \in held : d <= e
                 k == CHOOSE k \in 1..Len(order) :
                          /\ Doubles[d] \in Range(hands[order[k]])
                          /\ \A m \in 1..(k - 1) : Doubles[d] \notin Range(hands[order[m]])
             IN  <<Doubles[d], k>>

\* make_opening_move, the second loop from player position k on, with the
\* highest_rank_tile and hrt_player_index found so far (positions 1-based)
RECURSIVE HighestRankFrom(_, _, _, _, _)
HighestRankFrom(order, hands, k, highest_rank_tile, hrt_player_index) ==
    IF k > Len(order) THEN <<highest_rank_tile, hrt_player_index>>
    ELSE LET players_highest_rank_tile == get_highest_rank_tile(hands[order[k]])
         IN  IF TileGt(players_highest_rank_tile, highest_rank_tile)
             THEN HighestRankFrom(order, hands, k + 1, players_highest_rank_tile, k)
             ELSE HighestRankFrom(order, hands, k + 1, highest_rank_tile, hrt_player_index)

\* make_opening_move: <<opening tile, position of the player who holds it>>
OpeningChoice(order, hands) ==
    IF FirstDouble(order, hands)[2] # 0 THEN FirstDouble(order, hands)
    ELSE HighestRankFrom(order, hands, 1, <<0, 0>>, 1)

\* mutant of MoveToLast: the opener is moved to the front of the order
MoveToFirst(order, k) == <<order[k]>> \o RemoveAt(order, k)

\* self.players.append(self.players.pop(i))
MoveToLast(order, k) == Append(RemoveAt(order, k), order[k])

\* draw_tiles_from_stock: the n-th tile popped from the list s
Popped(s, n) == s[Len(s) - n + 1]

\* draw_tiles_from_stock: the hand of the player at position k after every
\* player in order popped `count` tiles
DealtHand(s, k, count) == [j \in 1..count |-> Popped(s, (k - 1) * count + j)]

\* mutant of RoundDelta: no special case for a hand holding only (0,0)
RoundDeltaNoPenalty(h, points_for_zero_zero) == get_total_weight(h)

\* write_down_scores: the delta of one hand
RoundDelta(h, points_for_zero_zero) ==
    IF get_total_weight(h) = 0 /\ h # <<>> THEN points_for_zero_zero ELSE get_total_weight(h)

\* ------------------------------------------------------ the inputs
\* config.py with no custom_config.toml
DefaultConfig ==
    [tiles_to_draw_if_two_players |-> 7, tiles_to_draw_if_more_than_two_players |-> 5,
     points_for_zero_zero |-> 10, goat_score |-> 101]

\* a custom_config.toml with short hands, another penalty and another threshold
CustomConfig ==
    [tiles_to_draw_if_two_players |-> 2, tiles_to_draw_if_more_than_two_players |-> 3,
     points_for_zero_zero |-> 5, goat_score |-> 20]

\* a custom_config.toml that only raises the threshold
HighThresholdConfig ==
    [tiles_to_draw_if_two_players |-> 7, tiles_to_draw_if_more_than_two_players |-> 5,
     points_for_zero_zero |-> 10, goat_score |-> 150]

Human == [is_bot |-> FALSE, bot_difficulty |-> 0]

AI(difficulty) == [is_bot |-> TRUE, bot_difficulty |-> difficulty]

\* the matches followed: the list of players given to Game and the configuration
Setups ==
    { [list |-> <<AI(1), AI(1)>>, cfg |-> DefaultConfig],
      [list |-> <<AI(1), AI(1), AI(1), AI(1)>>, cfg |-> DefaultConfig],
      [list |-> <<AI(1), AI(1), AI(1)>>, cfg |-> CustomConfig],
      [list |-> <<Human, Human>>, cfg |-> CustomConfig],
      [list |-> <<Human, AI(0), AI(1)>>, cfg |-> CustomConfig],
      [list |-> <<>>, cfg |-> DefaultConfig],
      [list |-> <<AI(1)>>, cfg |-> DefaultConfig],
      [list |-> <<AI(1), AI(1), AI(1), AI(1), AI(1)>>, cfg |-> DefaultConfig] }

\* matches with an automated player of a difficulty other than 0 and 1, which
\* AI.__init__ takes as it takes any value
DifficultySetups ==
    { [list |-> <<AI(2), AI(1)>>, cfg |-> DefaultConfig],
      [list |-> <<AI(1), AI(0), AI(2)>>, cfg |-> CustomConfig] }

\* mutant of PlayerCountError: only the lower limit is tested
PlayerCountErrorTooFewOnly(count) == count < 2

\* Game.__init__: the two tests that raise RuntimeError
PlayerCountError(count) == count < 2 \/ count > 4

\* ------------------------------------------------------- the state
VARIABLES
    cfg,                    \* the values of config.py
    kind,                   \* player -> [is_bot, bot_difficulty]
    players,                \* Game.players: the players in their current order
    hand,                   \* player -> Player.hand
    is_move_available,      \* player -> Player.is_move_available
    score,                  \* player -> Player.score
    stock,                  \* Game.stock
    tiles,                  \* Board.tiles
    paths,                  \* Board.paths
    started,                \* Game.started
    is_done,                \* Game.is_done
    current_player_id,      \* Game.current_player_id (-1: None)
    round_number,           \* run: round_number
    turn,                   \* run: i % player_count of the player the cycle yields next
    tile,                   \* process_new_tile: the tile waiting for its connecting value
    chosen_value,           \* process_new_tile: the local chosen_value (-1: not assigned)
    has_drawn,              \* make_move: the body of its while loop has run in this call
    move,                   \* Player.choose_tile: the local move (NoTile: None, or the input
                            \* that was rejected last)
    snapshot,               \* what the presentation has drawn at its last update
    other_pc,               \* where the thread of a second Game is ("none": no second Game)
    is_ui_requires_update,  \* the module's Event
    rng,                    \* the state of the random generator
    goats,                  \* what run returned
    pc                      \* where the Game thread is

vars == <<cfg, kind, players, hand, is_move_available, score, stock, tiles, paths, started,
          is_done, current_player_id, round_number, turn, tile, is_ui_requires_update,
          rng, goats, pc, chosen_value, has_drawn, move, snapshot, other_pc>>

player_count == Len(players)

Ids == DOMAIN kind

\* the rounds of this match that the model follows
RoundCap == IF \E p \in Ids : ~kind[p].is_bot THEN MaxInteractiveRounds ELSE MaxRounds

\* the player the cycle yields
Mover == players[turn + 1]

\* Game.__init__ on every setup and every state of the generator; the hands,
\* flags and scores are those of Player.__init__. With a player count outside
\* 2..4 the constructor raises after it has set its fields: no Game is returned
\* and its thread never runs
\* GameView.__init__: what the view shows before its first update (empty
\* sprite lists), and that it is not inside an update
EmptyView ==
    [hand |-> <<>>, tiles |-> <<>>, paths |-> <<>>, players |-> <<>>, pending |-> FALSE]

InitOf(setup, seed) ==
    /\ cfg = setup.cfg
    /\ kind = setup.list
    /\ players = Shuffle([k \in 1..Len(setup.list) |-> k], seed)
    /\ rng = NextSeed(seed)
    /\ hand = [p \in 1..Len(setup.list) |-> <<>>]
    /\ is_move_available = [p \in 1..Len(setup.list) |-> TRUE]
    /\ score = [p \in 1..Len(setup.list) |-> 0]
    /\ stock = <<>>
    /\ tiles = <<>>
    /\ paths = <<>>
    /\ started = FALSE
    /\ is_done = FALSE
    /\ current_player_id = -1
    /\ round_number = 1
    /\ turn = 0
    /\ tile = NoTile
    /\ chosen_value = -1
    /\ has_drawn = FALSE
    /\ move = NoTile
    /\ snapshot = EmptyView
    /\ other_pc = "none"
    /\ is_ui_requires_update = FALSE
    /\ goats = {}
    /\ pc = IF PlayerCountError(Len(setup.list)) THEN "raised" ELSE "wait_for_game_start"

\* Game(players) for one of the matches followed, random in any state
Init == \E setup \in Setups, seed \in Seeds : InitOf(setup, seed)

\* ----------------------------------------------------- the tests
\* mutant of is_tie: any() in place of all()
is_tie_for_any == \E p \in Ids : ~is_move_available[p]

\* Game.is_tie
is_tie == \A p \in Ids : ~is_move_available[p]

\* Game.is_someone_finished (Player.is_empty_hand)
is_someone_finished == \E p \in Ids : hand[p] = <<>>

\* Game.is_game_over
is_game_over == \E p \in Ids : is_a_goat(score[p])

\* Game.get_goats
get_goats == {p \in Ids : is_a_goat(score[p])}

\* mutant of tiles_to_draw: the two configuration values are taken the wrong
\* way round
tiles_to_draw_swapped ==
    IF player_count = 2 THEN cfg.tiles_to_draw_if_more_than_two_players
    ELSE cfg.tiles_to_draw_if_two_players

\* draw_tiles_from_stock: the number of tiles each player gets
tiles_to_draw ==
    IF player_count = 2 THEN cfg.tiles_to_draw_if_two_players
    ELSE cfg.tiles_to_draw_if_more_than_two_players

\* make_move: the suitable tiles of the player who moves
suitable_tiles == get_suitable_tiles(hand[Mover], paths)

\* what choose_tile can return: an interactive player's accepted input, any
\* suitable tile for AI difficulty 0, the highest weight for AI difficulty 1
Choices ==
    IF ~kind[Mover].is_bot
    THEN {m \in Inputs : ValidMove(m, hand[Mover], suitable_tiles)}
    ELSE IF kind[Mover].bot_difficulty = 0 THEN Range(suitable_tiles)
    ELSE IF kind[Mover].bot_difficulty = 1 THEN {HighestWeightTile(suitable_tiles)}
    ELSE {}

\* process_new_tile: the connecting values accepted for tile t (an interactive
\* player's input is asked again until it is one of the two faces; an AI draws
\* one of the two faces)
ConnectChoices(t) == {v \in Faces : v \in {t[1], t[2]}}

\* ----------------------------------------------------- the actions
\* main.py on_show / run_bot_comparison: game.started = True, on a Game that
\* was constructed
StartGame ==
    /\ pc # "raised"
    /\ ~started
    /\ started' = TRUE
    /\ UNCHANGED <<cfg, kind, move, snapshot, other_pc, chosen_value, has_drawn, players,
                   hand, is_move_available, score, stock, tiles, paths, is_done,
                   current_player_id, round_number, turn, tile, is_ui_requires_update, rng,
                   goats, pc>>

\* mutant of WaitForGameStart: the loop does not look at started
WaitForGameStartAtOnce ==
    /\ pc = "wait_for_game_start"
    /\ pc' = "run"
    /\ UNCHANGED <<cfg, kind, move, snapshot, other_pc, chosen_value, has_drawn, players,
                   hand, is_move_available, score, stock, tiles, paths, started, is_done,
                   current_player_id, round_number, turn, tile, is_ui_requires_update, rng,
                   goats>>

\* Game.wait_for_game_start returns
WaitForGameStart ==
    /\ pc = "wait_for_game_start"
    /\ started
    /\ pc' = "run"
    /\ UNCHANGED <<cfg, kind, move, snapshot, other_pc, chosen_value, has_drawn, players,
                   hand, is_move_available, score, stock, tiles, paths, started, is_done,
                   current_player_id, round_number, turn, tile, is_ui_requires_update, rng,
                   goats>>

\* Game.run: is_game_over() holds, run returns get_goats()
ReturnGoats ==
    /\ pc = "run"
    /\ is_game_over
    /\ goats' = get_goats
    /\ pc' = "returned"
    /\ UNCHANGED <<cfg, kind, move, snapshot, other_pc, chosen_value, has_drawn, players,
                   hand, is_move_available, score, stock, tiles, paths, started, is_done,
                   current_player_id, round_number, turn, tile, is_ui_requires_update, rng>>

\* mutant of StartRound: refresh_players is not called, the tiles are dealt
\* onto the hands and next to the flags of the round before
StartRoundWithoutRefresh ==
    /\ pc = "run"
    /\ ~is_game_over
    /\ round_number <= RoundCap
    /\ LET shuffled == Shuffle(FullStock, rng)
       IN  /\ hand' = [p \in Ids |->
                         hand[p] \o DealtHand(shuffled, IndexOf(players, p), tiles_to_draw)]
           /\ stock' = SubSeq(shuffled, 1, Len(shuffled) - player_count * tiles_to_draw)
    /\ rng' = NextSeed(rng)
    /\ tiles' = <<>>
    /\ paths' = <<>>
    /\ is_ui_requires_update' = TRUE
    /\ pc' = "make_opening_move"
    /\ UNCHANGED <<cfg, kind, move, snapshot, other_pc, chosen_value, has_drawn, players,
                   score, started, is_done, current_player_id, round_number, turn, tile,
                   goats, is_move_available>>

\* Game.start_round up to draw_tiles_from_stock: the stock and the board are
\* rebuilt, the players refreshed, the stock shuffled and the hands dealt
StartRound ==
    /\ pc = "run"
    /\ ~is_game_over
    /\ round_number <= RoundCap
    /\ LET shuffled == Shuffle(FullStock, rng)
       IN  /\ hand' = [p \in Ids |->
                         DealtHand(shuffled, IndexOf(players, p), tiles_to_draw)]
           /\ stock' = SubSeq(shuffled, 1, Len(shuffled) - player_count * tiles_to_draw)
    /\ rng' = NextSeed(rng)
    /\ tiles' = <<>>
    /\ paths' = <<>>
    /\ is_move_available' = [p \in Ids |-> TRUE]
    /\ is_ui_requires_update' = TRUE
    /\ pc' = "make_opening_move"
    /\ UNCHANGED <<cfg, kind, move, snapshot, other_pc, chosen_value, has_drawn, players,
                   score, started, is_done, current_player_id, round_number, turn, tile,
                   goats>>

\* Game.make_opening_move, and the end of start_round (is_done = False); the
\* cycle over the players starts at the first of the new order
MakeOpeningMove ==
    /\ pc = "make_opening_move"
    /\ LET choice == OpeningChoice(players, hand)
           owner == players[choice[2]]
       IN  /\ hand' = [hand EXCEPT ![owner] = take_tile_out_of_hand(@, choice[1])]
           /\ tiles' = Append(tiles, choice[1])
           /\ paths' = paths \o add_starting_tile(choice[1])
           /\ players' = MoveToLast(players, choice[2])
    /\ is_done' = FALSE
    /\ turn' = 0
    /\ pc' = "cycle"
    /\ UNCHANGED <<cfg, kind, move, snapshot, other_pc, chosen_value, has_drawn,
                   is_move_available, score, stock, started, current_player_id,
                   round_number, tile, is_ui_requires_update, rng, goats>>

\* mutant of WriteDownScores: the delta is assigned to the score, not added
WriteDownScoresAssigning ==
    /\ pc = "cycle"
    /\ is_tie \/ is_someone_finished \/ is_done
    /\ score' = [p \in Ids |-> RoundDelta(hand[p], cfg.points_for_zero_zero)]
    /\ round_number' = round_number + 1
    /\ pc' = "run"
    /\ UNCHANGED <<cfg, kind, move, snapshot, other_pc, chosen_value, has_drawn, players,
                   hand, is_move_available, stock, tiles, paths, started, is_done,
                   current_player_id, turn, tile, is_ui_requires_update, rng, goats>>

\* Game.run: the round is over; write_down_scores, break, round_number += 1
WriteDownScores ==
    /\ pc = "cycle"
    /\ is_tie \/ is_someone_finished \/ is_done
    /\ score' = [p \in Ids |-> score[p] + RoundDelta(hand[p], cfg.points_for_zero_zero)]
    /\ round_number' = round_number + 1
    /\ pc' = "run"
    /\ UNCHANGED <<cfg, kind, move, snapshot, other_pc, chosen_value, has_drawn, players,
                   hand, is_move_available, stock, tiles, paths, started, is_done,
                   current_player_id, turn, tile, is_ui_requires_update, rng, goats>>

\* mutant of NextTurn: the round-loop check does not look at is_tie
NextTurnIgnoringTie ==
    /\ pc = "cycle"
    /\ ~(is_someone_finished \/ is_done)
    /\ current_player_id' = turn
    /\ has_drawn' = FALSE
    /\ pc' = "make_move"
    /\ UNCHANGED <<cfg, kind, move, snapshot, other_pc, chosen_value, players, hand,
                   is_move_available, score, stock, tiles, paths, started, is_done,
                   round_number, turn, tile, is_ui_requires_update, rng, goats>>

\* mutant of NextTurn: the round-loop check does not look at the hands
NextTurnIgnoringFinish ==
    /\ pc = "cycle"
    /\ ~(is_tie \/ is_done)
    /\ current_player_id' = turn
    /\ has_drawn' = FALSE
    /\ pc' = "make_move"
    /\ UNCHANGED <<cfg, kind, move, snapshot, other_pc, chosen_value, players, hand,
                   is_move_available, score, stock, tiles, paths, started, is_done,
                   round_number, turn, tile, is_ui_requires_update, rng, goats>>

\* Game.run: the round goes on; current_player_id = i % player_count, make_move
NextTurn ==
    /\ pc = "cycle"
    /\ ~(is_tie \/ is_someone_finished \/ is_done)
    /\ current_player_id' = turn
    /\ has_drawn' = FALSE
    /\ pc' = "make_move"
    /\ UNCHANGED <<cfg, kind, move, snapshot, other_pc, chosen_value, players, hand,
                   is_move_available, score, stock, tiles, paths, started, is_done,
                   round_number, turn, tile, is_ui_requires_update, rng, goats>>

\* mutant of DrawOneTile: the loop draws whether or not a suitable tile is held
DrawOneTileAnyway ==
    /\ pc = "make_move"
    /\ stock # <<>>
    /\ hand' = [hand EXCEPT ![Mover] = Append(@, stock[Len(stock)])]
    /\ stock' = SubSeq(stock, 1, Len(stock) - 1)
    /\ has_drawn' = TRUE
    /\ is_ui_requires_update' = TRUE
    /\ UNCHANGED <<cfg, kind, move, snapshot, other_pc, chosen_value, players,
                   is_move_available, score, tiles, paths, started, is_done,
                   current_player_id, round_number, turn, tile, rng, goats, pc>>

\* Game.make_move: no suitable tile, the stock is not empty: draw_one_tile_from_stock
DrawOneTile ==
    /\ pc = "make_move"
    /\ suitable_tiles = <<>>
    /\ stock # <<>>
    /\ hand' = [hand EXCEPT ![Mover] = Append(@, stock[Len(stock)])]
    /\ stock' = SubSeq(stock, 1, Len(stock) - 1)
    /\ has_drawn' = TRUE
    /\ is_ui_requires_update' = TRUE
    /\ UNCHANGED <<cfg, kind, move, snapshot, other_pc, chosen_value, players,
                   is_move_available, score, tiles, paths, started, is_done,
                   current_player_id, round_number, turn, tile, rng, goats, pc>>

\* mutant of AbortMove: the move is aborted without a look at the stock
AbortMoveWithStock ==
    /\ pc = "make_move"
    /\ suitable_tiles = <<>>
    /\ is_move_available' = [is_move_available EXCEPT ![Mover] = FALSE]
    /\ turn' = (turn + 1) % player_count
    /\ pc' = "cycle"
    /\ UNCHANGED <<cfg, kind, move, snapshot, other_pc, chosen_value, has_drawn, players,
                   hand, score, stock, tiles, paths, started, is_done, current_player_id,
                   round_number, tile, is_ui_requires_update, rng, goats>>

\* mutant of AbortMove: after the skip the same player is asked again
AbortMoveKeepingTurn ==
    /\ pc = "make_move"
    /\ suitable_tiles = <<>>
    /\ stock = <<>>
    /\ is_move_available' = [is_move_available EXCEPT ![Mover] = FALSE]
    /\ pc' = "cycle"
    /\ UNCHANGED <<cfg, kind, move, snapshot, other_pc, chosen_value, has_drawn, players,
                   hand, score, stock, tiles, paths, started, is_done, current_player_id,
                   round_number, turn, tile, is_ui_requires_update, rng, goats>>

\* Game.make_move: no suitable tile, the stock is empty: the move is aborted
AbortMove ==
    /\ pc = "make_move"
    /\ suitable_tiles = <<>>
    /\ stock = <<>>
    /\ is_move_available' = [is_move_available EXCEPT ![Mover] = FALSE]
    /\ turn' = (turn + 1) % player_count
    /\ pc' = "cycle"
    /\ UNCHANGED <<cfg, kind, move, snapshot, other_pc, chosen_value, has_drawn, players,
                   hand, score, stock, tiles, paths, started, is_done, current_player_id,
                   round_number, tile, is_ui_requires_update, rng, goats>>

\* Game.make_move: a suitable tile is held; is_move_available = True and the
\* player is asked for a tile
MoveAvailable ==
    /\ pc = "make_move"
    /\ suitable_tiles # <<>>
    /\ is_move_available' = [is_move_available EXCEPT ![Mover] = TRUE]
    /\ pc' = "choose_tile"
    /\ UNCHANGED <<cfg, kind, move, snapshot, other_pc, chosen_value, has_drawn, players,
                   hand, score, stock, tiles, paths, started, is_done, current_player_id,
                   round_number, turn, tile, is_ui_requires_update, rng, goats>>

\* Game.make_move from choose_tile on: the chosen tile leaves the hand and
\* process_new_tile appends it; with one connecting value the path is extended
\* and the move ends, with two the connecting value is asked for
ChooseTile ==
    /\ pc = "choose_tile"
    /\ \E chosen \in Choices :
        /\ hand' = [hand EXCEPT ![Mover] = take_tile_out_of_hand(@, chosen)]
        /\ tiles' = Append(tiles, chosen)
        /\ IF unique_values_count(paths, chosen) = 2
           THEN /\ tile' = chosen
                /\ pc' = "process_new_tile"
                /\ UNCHANGED <<paths, turn, is_ui_requires_update>>
           ELSE /\ paths' = ExtendPath(paths, ChosenPath(paths, FittingPaths(paths, chosen)), chosen)
                /\ is_ui_requires_update' = TRUE
                /\ turn' = (turn + 1) % player_count
                /\ pc' = "cycle"
                /\ UNCHANGED tile
    /\ chosen_value' = -1
    /\ move' = NoTile
    /\ UNCHANGED <<cfg, kind, snapshot, other_pc, has_drawn, players, is_move_available,
                   score, stock, started, is_done, current_player_id, round_number, rng,
                   goats>>

\* mutant of RejectMove: the tile named is taken out of the hand before the
\* input is tested
RejectMoveTakingTile ==
    /\ pc = "choose_tile"
    /\ ~kind[Mover].is_bot
    /\ \E input \in Inputs :
        /\ ~ValidMove(input, hand[Mover], suitable_tiles)
        /\ move' = input
        /\ hand' = [hand EXCEPT ![Mover] = take_tile_out_of_hand(@, input)]
    /\ UNCHANGED <<cfg, kind, snapshot, other_pc, chosen_value, has_drawn, players,
                   is_move_available, score, stock, tiles, paths, started, is_done,
                   current_player_id, round_number, turn, tile, is_ui_requires_update, rng,
                   goats, pc>>

\* Player.choose_tile of an interactive player: an input that is not in the
\* hand or not suitable is reported and the player is asked again (an input
\* that is not two integers leaves move as it was: nothing changes at all)
RejectMove ==
    /\ pc = "choose_tile"
    /\ ~kind[Mover].is_bot
    /\ \E input \in Inputs :
        /\ ~ValidMove(input, hand[Mover], suitable_tiles)
        /\ move' = input
    /\ UNCHANGED <<cfg, kind, snapshot, other_pc, chosen_value, has_drawn, players, hand,
                   is_move_available, score, stock, tiles, paths, started, is_done,
                   current_player_id, round_number, turn, tile, is_ui_requires_update, rng,
                   goats, pc>>

\* Board.process_new_tile of an interactive player: a value that is not a face
\* of the tile is reported and the player is asked again
RejectValue ==
    /\ pc = "process_new_tile"
    /\ ~kind[Mover].is_bot
    /\ \E input \in Faces :
        /\ input \notin {tile[1], tile[2]}
        /\ chosen_value' = input
    /\ UNCHANGED <<cfg, kind, move, snapshot, other_pc, has_drawn, players, hand,
                   is_move_available, score, stock, tiles, paths, started, is_done,
                   current_player_id, round_number, turn, tile, is_ui_requires_update, rng,
                   goats, pc>>

\* Board.process_new_tile with two connecting values: the chosen value selects
\* the paths, the first by depth is extended, and make_move ends
ConnectTile ==
    /\ pc = "process_new_tile"
    /\ \E value \in ConnectChoices(tile) :
        /\ chosen_value' = value
        /\ paths' = ExtendPath(paths, ChosenPath(paths, PathsWithValue(paths, value)), tile)
    /\ tile' = NoTile
    /\ is_ui_requires_update' = TRUE
    /\ turn' = (turn + 1) % player_count
    /\ pc' = "cycle"
    /\ UNCHANGED <<cfg, kind, move, snapshot, other_pc, has_drawn, players, hand,
                   is_move_available, score, stock, tiles, started, is_done,
                   current_player_id, round_number, rng, goats>>

Next ==
    \/ StartGame
    \/ WaitForGameStart
    \/ ReturnGoats
    \/ StartRound
    \/ MakeOpeningMove
    \/ WriteDownScores
    \/ NextTurn
    \/ DrawOneTile
    \/ AbortMove
    \/ MoveAvailable
    \/ ChooseTile
    \/ ConnectTile

Spec == Init /\ [][Next]_vars

\* AI.choose_tile with a difficulty that is neither 0 nor 1: the method ends
\* without a return statement, make_move has None for the move, and
\* take_tile_out_of_hand(None) compares None with the tiles of the hand:
\* Tile.__eq__ raises AttributeError, which ends the Game thread
ChooseNothing ==
    /\ pc = "choose_tile"
    /\ kind[Mover].is_bot
    /\ kind[Mover].bot_difficulty \notin {0, 1}
    /\ move' = NoTile
    /\ pc' = "attribute_error"
    /\ UNCHANGED <<cfg, kind, snapshot, other_pc, chosen_value, has_drawn, players, hand,
                   is_move_available, score, stock, tiles, paths, started, is_done,
                   current_player_id, round_number, turn, tile, is_ui_requires_update, rng,
                   goats>>

\* Game(players) with any difficulty of the automated players
InitAnyDifficulty ==
    \E setup \in Setups \cup DifficultySetups, seed \in Seeds : InitOf(setup, seed)

NextAnyDifficulty ==
    \/ Next
    \/ ChooseNothing

\* The game with automated players of any difficulty the constructor takes.
SpecAnyDifficulty == InitAnyDifficulty /\ [][NextAnyDifficulty]_vars

\* GameView.on_update, as far as the signal is set: update_players_hands,
\* update_board and update_players_names read the hands, the board and the
\* order of the players; the view exists once game.started was set
ReadSnapshot ==
    /\ started
    /\ is_ui_requires_update
    /\ ~snapshot.pending
    /\ snapshot' = [hand |-> hand, tiles |-> tiles, paths |-> paths, players |-> players,
                    pending |-> TRUE]
    /\ UNCHANGED <<cfg, kind, move, other_pc, chosen_value, has_drawn, players, hand,
                   is_move_available, score, stock, tiles, paths, started, is_done,
                   current_player_id, round_number, turn, tile, is_ui_requires_update, rng,
                   goats, pc>>

\* GameView.on_update: is_ui_requires_update.clear() after the reads
ClearSignal ==
    /\ snapshot.pending
    /\ snapshot' = [snapshot EXCEPT !.pending = FALSE]
    /\ is_ui_requires_update' = FALSE
    /\ UNCHANGED <<cfg, kind, move, other_pc, chosen_value, has_drawn, players, hand,
                   is_move_available, score, stock, tiles, paths, started, is_done,
                   current_player_id, round_number, turn, tile, rng, goats, pc>>

\* the matches followed with a view: one of interactive players, one of
\* automated players that is played to its end
ViewSetups ==
    { [list |-> <<Human, Human>>, cfg |-> CustomConfig],
      [list |-> <<AI(1), AI(1)>>, cfg |-> DefaultConfig] }

\* the states of the random generator in which a match with a view is made
ViewSeeds == 0..MaxViewSeed

\* Game(players) for a match that a view shows
InitUI == \E setup \in ViewSetups, seed \in ViewSeeds : InitOf(setup, seed)

NextUI ==
    \/ Next
    \/ ReadSnapshot
    \/ ClearSignal

\* The Game thread and the view that shows it, which runs on_update at any time.
SpecUI == InitUI /\ [][NextUI]_vars

\* A second Game of the same process, as run_bot_comparison makes one after the
\* other and a program may run side by side. Its hands, stock, board and
\* scores are attributes of its own objects and are left out; followed are its
\* position (other_pc) and what it does to the objects of the module: the
\* Event is_ui_requires_update (models.py:13) and the generator of random.
\* Game.__init__ of the second Game: random.shuffle(players)
OtherGame ==
    /\ other_pc = "none"
    /\ other_pc' = "wait_for_game_start"
    /\ rng' = NextSeed(rng)
    /\ UNCHANGED <<cfg, kind, move, snapshot, chosen_value, has_drawn, players, hand,
                   is_move_available, score, stock, tiles, paths, started, is_done,
                   current_player_id, round_number, turn, tile, goats, pc,
                   is_ui_requires_update>>

\* the second Game is started and start_round deals: random.shuffle(stock)
\* and is_ui_requires_update.set() in draw_tiles_from_stock
OtherStartRound ==
    /\ other_pc = "wait_for_game_start"
    /\ other_pc' = "cycle"
    /\ rng' = NextSeed(rng)
    /\ is_ui_requires_update' = TRUE
    /\ UNCHANGED <<cfg, kind, move, snapshot, chosen_value, has_drawn, players, hand,
                   is_move_available, score, stock, tiles, paths, started, is_done,
                   current_player_id, round_number, turn, tile, goats, pc>>

\* make_move of the second Game draws or plays: is_ui_requires_update.set()
OtherMakeMove ==
    /\ other_pc = "cycle"
    /\ other_pc' = "make_move"
    /\ is_ui_requires_update' = TRUE
    /\ UNCHANGED <<cfg, kind, move, snapshot, chosen_value, has_drawn, players, hand,
                   is_move_available, score, stock, tiles, paths, started, is_done,
                   current_player_id, round_number, turn, tile, goats, pc, rng>>

\* the turn loop of the second Game goes on, or its round is scored
OtherNextTurn ==
    /\ other_pc = "make_move"
    /\ other_pc' \in {"cycle", "scored"}
    /\ UNCHANGED <<cfg, kind, move, snapshot, chosen_value, has_drawn, players, hand,
                   is_move_available, score, stock, tiles, paths, started, is_done,
                   current_player_id, round_number, turn, tile, goats, pc, rng,
                   is_ui_requires_update>>

\* the matches followed beside a second Game
TwoGamesSetups == { [list |-> <<AI(1), AI(1)>>, cfg |-> DefaultConfig] }

InitTwoGames == \E setup \in TwoGamesSetups, seed \in Seeds : InitOf(setup, seed)

NextTwoGames ==
    \/ Next
    \/ OtherGame
    \/ OtherStartRound
    \/ OtherMakeMove
    \/ OtherNextTurn

\* Two Games of one process.
SpecTwoGames == InitTwoGames /\ [][NextTwoGames]_vars

\* the matches followed to their end: one with the threshold of config.py, one
\* with a higher threshold configured
ThresholdSetups ==
    { [list |-> <<AI(1), AI(1)>>, cfg |-> DefaultConfig],
      [list |-> <<AI(1), AI(1)>>, cfg |-> HighThresholdConfig] }

InitThreshold == \E setup \in ThresholdSetups, seed \in Seeds : InitOf(setup, seed)

\* The game under either threshold.
SpecThreshold == InitThreshold /\ [][Next]_vars

\* the steps of the Game thread inside a round
RoundStep ==
    \/ MakeOpeningMove
    \/ NextTurn
    \/ DrawOneTile
    \/ AbortMove
    \/ MoveAvailable
    \/ ChooseTile
    \/ ConnectTile
    \/ WriteDownScores

\* The game when a round is never held up for ever: the Game thread runs
\* whenever it can and every decision it asks for is supplied.
SpecFair == Spec /\ WF_vars(RoundStep)

\* The game with the inputs an interactive player gives in vain. A rejected
\* input changes the locals move and chosen_value and nothing else, so Spec,
\* which leaves these steps out, visits the same hands, boards and scores.
NextInputs ==
    \/ Next
    \/ RejectMove
    \/ RejectValue

SpecInputs == Init /\ [][NextInputs]_vars

\* ================================================= the properties
\* the Game thread is inside a round: between start_round's deal and the scoring
InRound == pc \in {"make_opening_move", "cycle", "make_move", "choose_tile", "process_new_tile"}

\* the tiles of all hands in player order, then the stock, then the placed tiles
RECURSIVE HandsFrom(_)
HandsFrom(k) == IF k > player_count THEN <<>> ELSE hand[players[k]] \o HandsFrom(k + 1)

AllPlaces == HandsFrom(1) \o stock \o tiles

\* how many times tile t occurs in the list s
Occurrences(s, t) == Cardinality({k \in 1..Len(s) : s[k] = t})

\* the double-six set
TileSet == {t \in Faces \X Faces : t[1] <= t[2]}

\* C1: in every state of a round each of the 28 tiles of the double-six set is
\* in exactly one place among the hands, the stock and the placed tiles, so the
\* total count over hands, stock and placed tiles is 28.
C1_TilesConserved ==
    InRound =>
        /\ Cardinality(TileSet) = 28
        /\ Len(AllPlaces) = 28
        /\ \A t \in TileSet : Occurrences(AllPlaces, t) = 1

\* a round in which tiles were dealt, drawn until the stock ran out, played, and
\* a move was aborted
C1_Witness ==
    /\ pc = "cycle"
    /\ stock = <<>>
    /\ Len(tiles) > 2
    /\ \E p \in Ids : ~is_move_available[p]
    /\ \E p \in Ids : Len(hand[p]) > tiles_to_draw

\* a step in which process_new_tile ends: the tile was chosen or its connecting
\* value was given, and the path is updated
ProcessStep == pc \in {"choose_tile", "process_new_tile"} /\ pc' = "cycle"

\* a step in which choose_tile returns a tile
TileChosen == pc = "choose_tile" /\ pc' # "choose_tile"

\* a step in which the connecting value is accepted
ValueChosen == pc = "process_new_tile" /\ pc' # "process_new_tile"

\* the tile process_new_tile handled in such a step
Played == tiles'[Len(tiles')]

\* C2: after process_new_tile exactly one Path has changed: its value is the
\* unmatched face of the tile and its depth is one more; the value, depth and
\* index of every other Path are unchanged (a double included).
C2_OnePathExtended ==
    [][ProcessStep =>
        /\ Len(paths') = Len(paths)
        /\ \E k \in 1..Len(paths) :
            /\ paths[k].value \in {Played[1], Played[2]}
            /\ paths'[k].value = (IF paths[k].value = Played[1] THEN Played[2] ELSE Played[1])
            /\ paths'[k].depth = paths[k].depth + 1
            /\ paths'[k].index = paths[k].index
            /\ \A m \in 1..Len(paths) : m # k => paths'[m] = paths[m]]_vars

\* a double has just been played onto a path, another path is still untouched
C2_Witness ==
    /\ pc = "cycle"
    /\ Len(tiles) > 2
    /\ is_double(tiles[Len(tiles)])
    /\ \E k \in 1..Len(paths) : paths[k].depth > 2
    /\ \E k \in 1..Len(paths) : paths[k].depth = 1

\* C3: immediately after the opening move the board has 4 Paths, all with the
\* tile's value, when the opening tile is a double, and 2 Paths, one per face,
\* otherwise; the opening tile is the only placed tile.
C3_OpeningPaths ==
    [][pc = "make_opening_move" =>
        /\ Len(tiles') = 1
        /\ \A k \in 1..Len(paths') : paths'[k].depth = 1 /\ paths'[k].index = k - 1
        /\ IF tiles'[1][1] = tiles'[1][2]
           THEN Len(paths') = 4 /\ \A k \in 1..4 : paths'[k].value = tiles'[1][1]
           ELSE /\ Len(paths') = 2
                /\ paths'[1].value = tiles'[1][1]
                /\ paths'[2].value = tiles'[1][2]]_vars

\* the round has just been opened with a tile that is not a double
C3_Witness ==
    /\ pc = "cycle"
    /\ Len(tiles) = 1
    /\ ~is_double(tiles[1])
    /\ Len(paths) = 2
    /\ \A p \in Ids : is_move_available[p]

\* whether tile t has a face equal to the value of some path of ps
FitsSomePath(t, ps) == \E k \in 1..Len(ps) : t[1] = ps[k].value \/ t[2] = ps[k].value

\* C4: every tile played after the opening move has, when it is selected, a face
\* equal to the value of some Path, and the legal set of get_suitable_tiles is
\* exactly the tiles of the hand with that property.
C4_OnlyFittingTiles ==
    /\ [](pc \in {"make_move", "choose_tile"} =>
            Range(suitable_tiles) = {t \in Range(hand[Mover]) : FitsSomePath(t, paths)})
    /\ [][TileChosen =>
            /\ tiles'[Len(tiles')] \in Range(hand[Mover])
            /\ FitsSomePath(tiles'[Len(tiles')], paths)]_vars

\* an interactive player is asked for a tile with a choice of suitable tiles
\* and a tile in the hand that is not suitable
C4_Witness ==
    /\ pc = "choose_tile"
    /\ ~kind[Mover].is_bot
    /\ Len(suitable_tiles) > 1
    /\ \E t \in Range(hand[Mover]) : ~FitsSomePath(t, paths)

\* the sum of the weights of a set of tiles
RECURSIVE WeightOf(_)
WeightOf(S) == IF S = {} THEN 0 ELSE LET t == CHOOSE t \in S : TRUE IN t[1] + t[2] + WeightOf(S \ {t})

\* C5: at the scoring of a round each player's score grows by 0 for an empty
\* hand, by the configured zero-zero penalty for a hand holding only (0,0), and
\* by the sum of the weights of the tiles left for any other hand.
C5_ScoreDelta ==
    [][pc = "cycle" /\ pc' = "run" =>
        \A p \in Ids :
            score'[p] - score[p] =
                IF hand[p] = <<>> THEN 0
                ELSE IF hand[p] = <<(<<0, 0>>)>> THEN cfg.points_for_zero_zero
                ELSE WeightOf(Range(hand[p]))]_vars

\* a round has been scored with one hand empty, one holding only (0,0) and one
\* holding other tiles
C5_Witness ==
    /\ pc = "run"
    /\ round_number > 1
    /\ \E p, q, r \in Ids :
        /\ hand[p] = <<>>
        /\ hand[q] = <<(<<0, 0>>)>>
        /\ score[q] >= cfg.points_for_zero_zero
        /\ Len(hand[r]) > 1
        /\ score[r] > 0

\* C6: the match ends if and only if some score has reached the configured
\* threshold goat_score, tested at round boundaries only: run has returned only
\* with some score at or above goat_score, and no round is started or in
\* progress once some score has reached it.
C6_EndsAtGoatScore ==
    /\ pc = "returned" => \E p \in Ids : score[p] >= cfg.goat_score
    /\ InRound => \A p \in Ids : score[p] < cfg.goat_score

\* the doubles held by the players
HeldDoubles == {t \in UNION {Range(hand[p]) : p \in Ids} : t[1] = t[2]}

\* C7: when some player holds a double, the round is opened with the lowest
\* non-zero double held by any player, and with 0-0 only when no non-zero
\* double is held; a held double wins over every tile that is not a double.
C7_LowestDoubleOpens ==
    [][pc = "make_opening_move" /\ HeldDoubles # {} =>
        /\ tiles'[1] \in HeldDoubles
        /\ IF HeldDoubles = {<<0, 0>>} THEN tiles'[1] = <<0, 0>>
           ELSE /\ tiles'[1] # <<0, 0>>
                /\ \A t \in HeldDoubles \ {<<0, 0>>} : tiles'[1][1] <= t[1]]_vars

\* the round has just been opened with a non-zero double while another player
\* holds a higher double and a player holds 0-0
C7_Witness ==
    /\ pc = "cycle"
    /\ Len(tiles) = 1
    /\ is_double(tiles[1])
    /\ \E p \in Ids : p # players[player_count] /\ \E t \in Range(hand[p]) : is_double(t) /\ t[1] > tiles[1][1]
    /\ \E p \in Ids : <<0, 0>> \in Range(hand[p])

\* the tiles of all hands
HeldTiles == UNION {Range(hand[p]) : p \in Ids}

\* the rank of the claim: (higher face, lower face), compared lexicographically
Outranks(a, b) == a[2] > b[2] \/ (a[2] = b[2] /\ a[1] >= b[1])

\* C8: when no player holds a double, the round is opened with the single
\* highest-ranked tile across all hands, ranked by (higher face, lower face),
\* whatever the order of the players and of the tiles in the hands.
C8_HighestRankOpens ==
    [][pc = "make_opening_move" /\ HeldDoubles = {} =>
        /\ tiles'[1] \in HeldTiles
        /\ \A t \in HeldTiles : Outranks(tiles'[1], t)]_vars

\* C9: after the opening move the opening tile has left its owner's hand and is
\* the first placed tile, the owner is last in the player order, the order of
\* the other players is unchanged, and the first turn is the first player's.
C9_OpenerMovesLast ==
    [][pc = "make_opening_move" =>
        LET owner == players'[player_count]
            was == IndexOf(players, owner)
        IN  /\ tiles' = <<tiles'[1]>>
            /\ tiles'[1] \in Range(hand[owner])
            /\ tiles'[1] \notin Range(hand'[owner])
            /\ Len(hand'[owner]) = Len(hand[owner]) - 1
            /\ \A p \in Ids : p # owner => hand'[p] = hand[p]
            /\ Len(players') = Len(players)
            /\ SubSeq(players', 1, player_count - 1) = RemoveAt(players, was)
            /\ pc' = "cycle"
            /\ players'[turn' + 1] = players'[1]]_vars

\* a later round of three or more players has been opened and the player now
\* first in the order is about to move, every other hand as dealt
C9_Witness ==
    /\ pc = "make_move"
    /\ player_count > 2
    /\ Len(tiles) = 1
    /\ current_player_id = 0
    /\ Mover = players[1]
    /\ round_number > 1
    /\ \A p \in Ids : Len(hand[p]) = tiles_to_draw - (IF p = players[player_count] THEN 1 ELSE 0)

\* C10: the Path that process_new_tile extends has the lowest depth among the
\* candidate Paths (those with the connecting value), and the lowest index among
\* the candidates of that depth, also when three or four Paths share the value.
C10_LowestDepthFirst ==
    [][ProcessStep =>
        \A k \in 1..Len(paths) :
            paths'[k] # paths[k] =>
                \A m \in 1..Len(paths) :
                    paths[m].value = paths[k].value =>
                        \/ paths[k].depth < paths[m].depth
                        \/ paths[k].depth = paths[m].depth /\ paths[k].index <= paths[m].index]_vars

\* four paths of a double opening: the first two were extended before the
\* third, which shared the value and the depth with the fourth
C10_Witness ==
    /\ pc = "cycle"
    /\ Len(paths) = 4
    /\ paths[1].depth > 1
    /\ paths[2].depth > 1
    /\ paths[3].depth = 2
    /\ paths[4].depth = 1
    /\ paths[4].value = tiles[1][1]
\* the positions of the paths a step has changed
ChangedPaths == {k \in 1..Len(paths) : paths'[k] # paths[k]}

\* C11: process_new_tile asks for a connecting value exactly when the faces of
\* the tile differ and each is the value of some Path; the Path then extended
\* had the chosen connecting value and gets the tile's other face. With one
\* playable face no value is asked for and a Path of that face's value is
\* extended.
C11_ConnectingValue ==
    /\ [][TileChosen =>
            LET asked == pc' = "process_new_tile"
                both == /\ Played[1] # Played[2]
                        /\ \E k \in 1..Len(paths) : paths[k].value = Played[1]
                        /\ \E k \in 1..Len(paths) : paths[k].value = Played[2]
            IN  /\ asked <=> both
                /\ asked => ChangedPaths = {} /\ tile' = Played
                /\ ~asked =>
                    /\ chosen_value' = -1
                    /\ \E k \in 1..Len(paths) :
                        /\ ChangedPaths = {k}
                        /\ paths[k].value \in {Played[1], Played[2]}
                        /\ paths'[k].value =
                               (IF paths[k].value = Played[1] THEN Played[2] ELSE Played[1])]_vars
    /\ [][ValueChosen =>
            /\ chosen_value' \in {tile[1], tile[2]}
            /\ \E k \in 1..Len(paths) :
                /\ ChangedPaths = {k}
                /\ paths[k].value = chosen_value'
                /\ paths'[k].value = (IF chosen_value' = tile[1] THEN tile[2] ELSE tile[1])
                /\ paths'[k].value # chosen_value']_vars

\* a tile whose two faces were both open has been connected by its second face
C11_Witness ==
    /\ pc = "cycle"
    /\ Len(tiles) > 1
    /\ chosen_value = tiles[Len(tiles)][2]
    /\ \E k \in 1..Len(paths) : paths[k].value = tiles[Len(tiles)][2]
    /\ \E k \in 1..Len(paths) : paths[k].value = tiles[Len(tiles)][1] /\ paths[k].depth > 1

\* a step inside a round that takes a tile from the stock or adds one to a hand
DrawStep ==
    /\ pc \in {"cycle", "make_move", "choose_tile", "process_new_tile"}
    /\ stock' # stock \/ \E p \in Ids : Len(hand'[p]) > Len(hand[p])

\* C12: in make_move a player draws only while the hand holds no legal tile and
\* the stock is not empty; each draw moves exactly one tile from the stock to
\* that player's hand; once the hand holds a legal tile no draw follows and the
\* player plays in that same turn, so a player who holds a legal tile at the
\* start of the turn never draws.
C12_DrawOnStuck ==
    /\ [][DrawStep =>
            /\ pc = "make_move" /\ pc' = "make_move"
            /\ get_suitable_tiles(hand[Mover], paths) = <<>>
            /\ stock # <<>>
            /\ \E t \in Range(stock) :
                /\ stock = Append(stock', t)
                /\ hand'[Mover] = Append(hand[Mover], t)
            /\ \A p \in Ids : p # Mover => hand'[p] = hand[p]
            /\ turn' = turn /\ players' = players
            /\ tiles' = tiles /\ paths' = paths]_vars
    /\ [][pc = "make_move" /\ get_suitable_tiles(hand[Mover], paths) # <<>> =>
            /\ ~DrawStep
            /\ has_drawn' = has_drawn
            /\ pc' = "choose_tile"
            /\ turn' = turn /\ players' = players]_vars
    /\ [][TileChosen =>
            /\ ~DrawStep
            /\ Len(hand'[Mover]) = Len(hand[Mover]) - 1
            /\ Len(tiles') = Len(tiles) + 1
            /\ Played \in Range(hand[Mover])]_vars
    /\ [][(pc = "choose_tile" \/ pc = "process_new_tile") =>
            /\ ~DrawStep
            /\ has_drawn' = has_drawn
            /\ (pc' = pc \/ pc' = "process_new_tile" \/ pc' = "cycle")]_vars

\* a player who had no legal tile drew at least twice, the last tile drawn is
\* the only legal one, the stock is not empty and the player is asked to play
C12_Witness ==
    /\ pc = "choose_tile"
    /\ has_drawn
    /\ stock # <<>>
    /\ Len(hand[Mover]) > tiles_to_draw + 1
    /\ suitable_tiles = <<hand[Mover][Len(hand[Mover])]>>

\* a step that sets is_move_available of player p to false: the flag falls, or
\* p's turn ends in make_move without a tile being asked for
SetFalseStep(p) ==
    /\ ~is_move_available'[p]
    /\ is_move_available[p] \/ (pc = "make_move" /\ pc' = "cycle" /\ p = Mover)

\* a step of player p's call of make_move before a tile is asked for
MakeMoveStep(p) == pc = "make_move" /\ p = Mover

\* C13 as stated: is_move_available is set to false only in a turn where the
\* player holds no legal tile and the stock is empty, and that skipped turn
\* (the whole call of make_move, in which therefore nothing was drawn) leaves
\* every hand, the stock, the placed tiles, all Paths and all scores unchanged;
\* in every turn where the player plays a tile the flag is true afterwards.
C13_SkippedTurnChangesNothing ==
    /\ [][\A p \in Ids : SetFalseStep(p) =>
            /\ pc = "make_move" /\ p = Mover
            /\ get_suitable_tiles(hand[p], paths) = <<>>
            /\ stock = <<>>
            /\ ~has_drawn
            /\ UNCHANGED <<hand, stock, tiles, paths, score>>]_vars
    /\ [][ProcessStep => is_move_available'[Mover]]_vars

\* C13 (amended): is_move_available is set to false only at a point of a turn
\* where the player holds no legal tile and the stock is empty, possibly after
\* the player drew the rest of the stock in that turn; the skip itself leaves
\* every hand, the stock, the placed tiles, all Paths and all scores unchanged,
\* the whole skipped turn leaves the placed tiles, all Paths, all scores and
\* every other hand unchanged, and a turn skipped without a draw changes
\* nothing; in every turn where the player plays a tile the flag is true
\* afterwards.
C13_SkipAfterDraws ==
    /\ [][\A p \in Ids : SetFalseStep(p) =>
            /\ pc = "make_move" /\ p = Mover
            /\ get_suitable_tiles(hand[p], paths) = <<>>
            /\ stock = <<>>
            /\ UNCHANGED <<hand, stock, tiles, paths, score>>]_vars
    /\ [][\A p \in Ids : MakeMoveStep(p) =>
            /\ UNCHANGED <<tiles, paths, score>>
            /\ \A q \in Ids : q # p => hand'[q] = hand[q]
            /\ ~has_drawn' => UNCHANGED <<hand, stock>>]_vars
    /\ [][pc = "cycle" /\ pc' = "make_move" =>
            UNCHANGED <<hand, stock, tiles, paths, score, is_move_available>>]_vars
    /\ [][ProcessStep => is_move_available'[Mover]]_vars

\* a player drew the last tiles of the stock, still held no legal tile and was
\* skipped; another player had been skipped before and has played since
C13_Witness ==
    /\ pc = "cycle"
    /\ has_drawn
    /\ stock = <<>>
    /\ ~is_move_available[players[((turn + player_count - 1) % player_count) + 1]]
    /\ Len(tiles) > 1

\* the round-loop check of run ends the round
RoundEnds == pc = "cycle" /\ pc' = "run"

\* every flag is false
AllFlagsFalse == \A p \in Ids : ~is_move_available[p]

\* no player holds a tile with a face equal to the value of a Path
NobodyCanPlay == \A p \in Ids : \A t \in Range(hand[p]) : ~FitsSomePath(t, paths)

\* some player's flag is still false although the player now holds a legal tile
StaleFlag == \E p \in Ids : ~is_move_available[p] /\ \E t \in Range(hand[p]) : FitsSomePath(t, paths)

\* C14: whenever a round ends as a tie the stock is empty and no player holds a
\* tile with a face equal to a Path value; a round ends only as a tie or with
\* an empty hand, and a flag still false from an earlier turn of a player who
\* has since gained a legal move never ends the round.
C14_TieMeansBlocked ==
    /\ [][RoundEnds /\ AllFlagsFalse => stock = <<>> /\ NobodyCanPlay]_vars
    /\ [][RoundEnds => AllFlagsFalse \/ \E p \in Ids : hand[p] = <<>>]_vars
    /\ [][pc = "cycle" /\ StaleFlag /\ (\A p \in Ids : hand[p] # <<>>) =>
            pc' = "make_move" /\ UNCHANGED <<hand, stock, tiles, paths, score>>]_vars

\* a round has ended as a tie: it is scored, nobody has an empty hand, every
\* player is left with tiles that count
C14_Witness ==
    /\ pc = "run"
    /\ round_number > 1
    /\ AllFlagsFalse
    /\ stock = <<>>
    /\ \A p \in Ids : hand[p] # <<>> /\ score[p] > 0

\* the scoring of the round: write_down_scores and the end of the round loop
Scored ==
    /\ pc' = "run"
    /\ round_number' = round_number + 1
    /\ score' = [p \in Ids |-> score[p] + RoundDelta(hand[p], cfg.points_for_zero_zero)]
    /\ UNCHANGED <<hand, stock, tiles, paths, is_move_available, players>>

\* C15: once every player has is_move_available = false in the same state of a
\* round, the next thing that happens is the scoring of the round: no draw, no
\* play and no skip of any player comes before it.
C15_TieEndsRoundAtOnce ==
    /\ [](InRound /\ AllFlagsFalse => pc = "cycle")
    /\ [][InRound /\ AllFlagsFalse => Scored]_vars

\* every player of a match of three or more has just been skipped in turn
C15_Witness ==
    /\ pc = "cycle"
    /\ player_count > 2
    /\ AllFlagsFalse
    /\ \A p \in Ids : hand[p] # <<>>

\* the players whose hand is empty
EmptyHanded == {p \in Ids : hand[p] = <<>>}

\* C16: once a player's hand is empty after a play, the next thing that happens
\* is the scoring of the round: no other player draws, plays or is skipped
\* before it, and at the scoring of a finished round exactly one player has an
\* empty hand. (A hand can be empty while its last tile still waits for its
\* connecting value: the play ends with that value, nothing else happens first.)
C16_FinishEndsRoundAtOnce ==
    /\ [](InRound /\ EmptyHanded # {} =>
            /\ pc = "cycle" \/ pc = "process_new_tile"
            /\ Cardinality(EmptyHanded) = 1
            /\ pc = "process_new_tile" => EmptyHanded = {Mover})
    /\ [][pc = "cycle" /\ EmptyHanded # {} => Scored /\ Cardinality(EmptyHanded) = 1]_vars
    /\ [][pc = "process_new_tile" /\ EmptyHanded # {} =>
            /\ pc' = "cycle" \/ pc' = pc
            /\ UNCHANGED <<hand, stock, tiles, score, is_move_available>>]_vars
    /\ [][ProcessStep /\ hand'[Mover] = <<>> =>
            /\ is_move_available'[Mover]
            /\ \A p \in Ids : p # Mover => hand'[p] = hand[p] /\ hand[p] # <<>>]_vars

\* a player of a match of four has just played the last tile of the hand while
\* the stock is empty and another player's flag is false from a skipped turn
C16_Witness ==
    /\ pc = "cycle"
    /\ player_count = 4
    /\ Cardinality(EmptyHanded) = 1
    /\ stock = <<>>
    /\ \E p \in Ids : ~is_move_available[p]

\* the deal of the round is done, the opening move is not
Dealt == pc = "make_opening_move"

\* C17 as stated: after the deal of every round and before the opening move each
\* player holds exactly 7 tiles when there are 2 players and exactly 5 when
\* there are 3 or 4, and the stock holds 28 minus players x count tiles.
C17_SevenOrFiveTiles ==
    Dealt =>
        LET count == IF player_count = 2 THEN 7 ELSE 5
        IN  /\ \A p \in Ids : Len(hand[p]) = count
            /\ Len(stock) = 28 - player_count * count

\* C17 (amended): after the deal of every round and before the opening move each
\* player holds exactly the configured number of tiles, which is
\* tiles_to_draw_if_two_players (7 unless configured otherwise) for 2 players
\* and tiles_to_draw_if_more_than_two_players (5 unless configured otherwise)
\* for 3 or 4 players, all taken from the stock, which then holds 28 minus
\* players x count tiles.
C17_ConfiguredDeal ==
    Dealt =>
        LET count == IF player_count = 2 THEN cfg.tiles_to_draw_if_two_players
                     ELSE cfg.tiles_to_draw_if_more_than_two_players
        IN  /\ \A p \in Ids : Len(hand[p]) = count
            /\ Len(stock) = 28 - player_count * count
            /\ tiles = <<>>
            /\ \A t \in TileSet : Occurrences(AllPlaces, t) = 1
            /\ cfg = DefaultConfig => count = (IF player_count = 2 THEN 7 ELSE 5)

\* a later round of a match of three players with configured hands of three
\* tiles has been dealt
C17_Witness ==
    /\ Dealt
    /\ round_number > 1
    /\ player_count = 3
    /\ cfg.tiles_to_draw_if_more_than_two_players = 3
    /\ Len(stock) = 19

\* start_round has rebuilt the stock and the board, refreshed the players and
\* dealt
RoundStarts == pc = "run" /\ pc' = "make_opening_move"

\* C18: at the start of every round, whatever the round before ended in,
\* start_round rebuilds the stock as the 28 distinct tiles of the double-six
\* set, replaces the board by an empty one, empties every hand before the deal
\* (the hands and the stock after the deal are exactly those 28 tiles, none
\* left from the round before) and sets every is_move_available to true; no
\* score changes.
C18_RoundStartsFresh ==
    [][RoundStarts =>
        /\ Len(AllPlaces') = 28
        /\ \A t \in TileSet : Occurrences(AllPlaces', t) = 1
        /\ Range(FullStock) = TileSet /\ Len(FullStock) = 28
        /\ \A p \in Ids : Range(hand'[p]) \cap Range(stock') = {}
        /\ tiles' = <<>> /\ paths' = <<>>
        /\ \A p \in Ids : is_move_available'[p]
        /\ score' = score
        /\ players' = players]_vars

\* the third round has been dealt after two rounds that left every player
\* with points
C18_Witness ==
    /\ Dealt
    /\ round_number = 3
    /\ \A p \in Ids : score[p] > 0 /\ is_move_available[p]
    /\ tiles = <<>>

\* C19: across the match no score is ever reset or decreased: a score changes
\* only in the scoring step at the end of a round, by the delta of that round,
\* which is not negative; start_round, the deal, the opening move, draws, plays
\* and skips leave every score unchanged.
C19_ScoresOnlyGrow ==
    /\ [][\A p \in Ids : score'[p] >= score[p]]_vars
    /\ [][score' # score =>
            /\ RoundEnds
            /\ \A p \in Ids :
                /\ score'[p] - score[p] = RoundDelta(hand[p], cfg.points_for_zero_zero)
                /\ score'[p] - score[p] >= 0]_vars
    /\ [][~RoundEnds => score' = score]_vars
    /\ [](round_number = 1 => \A p \in Ids : score[p] = 0)

\* in the third round, after plays and a draw, every player still has points
\* of the two rounds before
C19_Witness ==
    /\ pc = "cycle"
    /\ round_number = 3
    /\ Len(tiles) > 3
    /\ has_drawn
    /\ \A p \in Ids : score[p] > 0

\* C20: constructing a Game with fewer than 2 or more than 4 players fails at
\* construction and no round is ever started for it (no stock, no hand, no
\* board, the thread never leaves the constructor); with 2, 3 or 4 players the
\* construction succeeds.
C20_PlayerCountChecked ==
    /\ Len(kind) \notin 2..4 =>
            /\ pc = "raised"
            /\ ~started
            /\ stock = <<>> /\ tiles = <<>> /\ paths = <<>>
            /\ \A p \in Ids : hand[p] = <<>>
    /\ Len(kind) \in 2..4 => pc # "raised"

\* a Game of five players was refused
C20_Witness == pc = "raised" /\ player_count = 5 /\ players # <<1, 2, 3, 4, 5>>
\* what a rejected decision must leave alone
Untouched ==
    UNCHANGED <<hand, stock, tiles, paths, score, players, turn, current_player_id,
                is_move_available, tile, round_number>>

\* C21: an interactive decision that is invalid (a tile that is not in the hand
\* or not in the legal set, a connecting value that is not a face of the tile)
\* is rejected and the same player is asked again: the rejection changes no
\* hand, stock, placed tile, Path, score or player order, and the turn goes on
\* only with a valid decision.
C21_InvalidDecisionRejected ==
    /\ [][pc = "choose_tile" /\ pc' = "choose_tile" =>
            /\ ~kind[Mover].is_bot
            /\ move' \notin Range(hand[Mover]) \/ ~FitsSomePath(move', paths)
            /\ Untouched]_vars
    /\ [][pc = "process_new_tile" /\ pc' = "process_new_tile" =>
            /\ ~kind[Mover].is_bot
            /\ chosen_value' \notin {tile[1], tile[2]}
            /\ Untouched]_vars
    /\ [][TileChosen /\ ~kind[Mover].is_bot =>
            /\ Played \in Range(hand[Mover]) /\ FitsSomePath(Played, paths)
            /\ players' = players]_vars
    /\ [][ValueChosen /\ ~kind[Mover].is_bot =>
            /\ chosen_value' \in {tile[1], tile[2]}
            /\ players' = players]_vars

\* an interactive player named a tile of the hand that fits no Path, was
\* refused and is asked again, another tile of the hand being legal
C21_Witness ==
    /\ pc = "choose_tile"
    /\ ~kind[Mover].is_bot
    /\ move \in Range(hand[Mover])
    /\ ~FitsSomePath(move, paths)
    /\ suitable_tiles # <<>>
\* C22: whoever the player is (interactive, automated with any difficulty the
\* constructor accepts), choose_tile on a non-empty legal set returns one tile
\* of the legal set, hence of the hand: every step that leaves the question
\* plays a tile that was legal, and none leaves it without a tile.
C22_ChoosesOneLegalTile ==
    [][TileChosen =>
        /\ pc' = "process_new_tile" \/ pc' = "cycle"
        /\ Len(tiles') = Len(tiles) + 1
        /\ Played \in Range(suitable_tiles)
        /\ Played \in Range(hand[Mover])]_vars
\* the player who moves is automated with difficulty 1
NormalBot == kind[Mover].is_bot /\ kind[Mover].bot_difficulty = 1

\* C23: an automated player of difficulty 1 plays a legal tile of the highest
\* weight among its legal tiles, and of the legal tiles of that weight the one
\* that comes first in the hand; hand and board leave it one choice.
C23_HighestWeightFirstInHand ==
    /\ [][TileChosen /\ NormalBot =>
            LET h == hand[Mover]
                k == IndexOf(h, Played)
            IN  /\ Played \in Range(h)
                /\ FitsSomePath(Played, paths)
                /\ \A m \in 1..Len(h) : FitsSomePath(h[m], paths) =>
                        /\ weight(h[m]) <= weight(Played)
                        /\ m < k => weight(h[m]) < weight(Played)]_vars
    /\ [](pc = "choose_tile" /\ NormalBot => Cardinality(Choices) = 1)

\* an automated player of difficulty 1 has played a tile that asks for a
\* connecting value while it holds another legal tile of the same weight
C23_Witness ==
    /\ pc = "process_new_tile"
    /\ NormalBot
    /\ \E t \in Range(hand[Mover]) : FitsSomePath(t, paths) /\ weight(t) = weight(tile)
\* the Game thread waits for an interactive decision
AwaitsDecision == (pc = "choose_tile" \/ pc = "process_new_tile") /\ ~kind[Mover].is_bot

\* the view shows the hands, the board and the order of the players as they are
ViewCurrent ==
    /\ snapshot.hand = hand
    /\ snapshot.tiles = tiles
    /\ snapshot.paths = paths
    /\ snapshot.players = players

\* C24: every step that changes a hand, the board or the order of the players
\* (deal, opening move and rotation of the opener, draw, play) leaves the
\* signal set; and with a view that reads and clears at any time, whenever the
\* Game thread waits for an interactive decision or is between two turns and
\* the signal is clear, the view's last read is the present state.
C24_NoMutationUnsignalled ==
    /\ [][hand' # hand \/ tiles' # tiles \/ paths' # paths \/ players' # players =>
            is_ui_requires_update']_vars
    /\ []((AwaitsDecision \/ pc = "cycle") /\ ~is_ui_requires_update => ViewCurrent)

\* the tiles a view shows on the board and the Paths it shows agree: every
\* tile but the first has made one Path one deeper
ViewWhole ==
    snapshot.tiles # <<>> =>
        SumSeq([k \in 1..Len(snapshot.paths) |-> snapshot.paths[k].depth - 1])
            = Len(snapshot.tiles) - 1

\* C25: a view that reads at any time never shows a torn play: no tile that is
\* in no hand it shows and not on the board it shows, no tile on the board
\* whose Path is still as before the play, also while the Game thread waits
\* for a connecting value.
C25_NoTornPlay ==
    /\ ViewWhole
    /\ snapshot.tiles # <<>> =>
            \A p \in Ids : Range(snapshot.hand[p]) \cap Range(snapshot.tiles) = {}
\* C26: two Games side by side share nothing that changes: a step of one match
\* changes nothing that the other match or its view reads, and the signal of
\* one match is neither raised nor cleared by the other.
C26_NothingShared ==
    [][other_pc' # other_pc =>
        UNCHANGED <<is_ui_requires_update, rng, players, hand, is_move_available, score,
                    stock, tiles, paths, started, is_done, current_player_id>>]_vars
\* C27: the match goes from awaiting its start to a round in progress, from
\* there to the scoring of the round, and from there to the next round or to
\* its end. Before started is set nothing but started changes; a score or the
\* round number changes only in the scoring that ends a round, which comes only
\* with a tie or an empty hand and adds exactly 1 to the round number; after
\* the scoring the next step starts a round or ends the match, with no play
\* and no draw; and the match ends only after a scoring.
C27_Lifecycle ==
    /\ [](~started => pc = "wait_for_game_start" \/ pc = "raised")
    /\ [][~started =>
            UNCHANGED <<pc, players, hand, is_move_available, score, stock, tiles, paths,
                        round_number, rng>>]_vars
    /\ [][score' # score \/ round_number' # round_number \/ RoundEnds =>
            /\ RoundEnds
            /\ Scored
            /\ AllFlagsFalse \/ EmptyHanded # {}
            /\ round_number' = round_number + 1]_vars
    /\ [][pc = "run" =>
            \/ RoundStarts /\ UNCHANGED <<score, round_number>>
            \/ pc' = "returned" /\ UNCHANGED <<hand, stock, tiles, paths, score, round_number>>]_vars
    /\ [][pc' = "returned" => pc = "run" \/ pc = "returned"]_vars
    /\ [][pc' = "run" => RoundEnds \/ pc = "wait_for_game_start" \/ pc = "run"]_vars
    /\ [](pc = "returned" => round_number > 1 /\ \E p \in Ids : score[p] > 0)

\* the match has ended after more than one round
C27_Witness == pc = "returned" /\ started /\ round_number > 2
\* the tile with the faces of t in the other order
Reversed(t) == <<t[2], t[1]>>

\* C28: a tile is equal to the tile with the same faces in the other order, so
\* an interactive player who names a legal tile of the hand with its faces
\* reversed is not refused: no input whose reverse is a legal tile of the hand
\* is ever the rejected one.
C28_ReversedNamingAccepted ==
    pc = "choose_tile" /\ ~kind[Mover].is_bot /\ move # NoTile =>
        ~\E k \in 1..Len(suitable_tiles) : suitable_tiles[k] = Reversed(move)
\* C29: at each scoring every player but at most one gains at least 1 point,
\* so the total of the scores grows with every round; and when run has
\* returned, the goats are at least one player and exactly the players whose
\* score has reached the threshold goat_score.
C29_EndsWithTheGoats ==
    /\ [][RoundEnds =>
            /\ Cardinality({p \in Ids : score'[p] < score[p] + 1}) <= 1
            /\ SumSeq(score') > SumSeq(score)]_vars
    /\ [](pc = "returned" =>
            /\ goats # {}
            /\ goats = {p \in Ids : score[p] >= cfg.goat_score})
\* C30: when decisions are always supplied in the end, every round in progress
\* comes to a state where some hand is empty or every player has
\* is_move_available = false, and is then scored: the turn loop does not go
\* round for ever.
C30_RoundTerminates ==
    /\ InRound ~> (EmptyHanded # {} \/ AllFlagsFalse)
    /\ InRound ~> (pc = "run")

\* a round of two players that went on until the stock was empty and a dozen
\* tiles were placed has ended with every player skipped
C30_Witness ==
    /\ pc = "run"
    /\ player_count = 2
    /\ AllFlagsFalse
    /\ stock = <<>>
    /\ Len(tiles) >= 12
    /\ EmptyHanded = {}

\* the opening move of the round is made and the round is not yet scored
AfterOpening == pc = "cycle" \/ pc = "make_move" \/ pc = "choose_tile" \/ pc = "process_new_tile"

\* the tiles played onto the Paths, counted by the depths
PlayedOntoPaths == SumSeq([k \in 1..Len(paths) |-> paths[k].depth - 1])

\* C31: within a round, after the opening move, the list of Paths keeps its
\* 2 or 4 Paths, the index of each Path is its position in the list, the list
\* of placed tiles only grows by appending, and the number of placed tiles is
\* always 1 plus the sum over the Paths of (depth - 1).
C31_BoardShape ==
    /\ [][AfterOpening =>
            /\ Len(paths') = Len(paths)
            /\ tiles' = tiles \/ \E t \in Faces \X Faces : tiles' = Append(tiles, t)]_vars
    /\ [](AfterOpening =>
            /\ Len(paths) = 2 \/ Len(paths) = DoublePaths
            /\ \A k \in 1..Len(paths) : paths[k].index = k - 1 /\ paths[k].depth >= 1
            /\ Len(tiles) = 1 + PlayedOntoPaths)

\* a turn is going on: make_move has been called and has not returned
InTurn == pc = "make_move" \/ pc = "choose_tile" \/ pc = "process_new_tile"

\* the turn loop calls make_move / make_move returns
TurnBegins == pc = "cycle" /\ pc' = "make_move"

TurnEnds == InTurn /\ pc' = "cycle"

\* C32: within a round the turns go round-robin in the order of the players
\* that the opening rotation left. The first turn is that of the first player
\* of the order and each turn (a play or a skip) is followed by the turn of
\* the next player of the order, the first after the last; no turn changes
\* the order, which is always a permutation of the players given at
\* construction; and during a turn current_player_id is the position in the
\* order of the player who moves: only that player's hand and flag change.
C32_RoundRobin ==
    /\ [](Len(players) = player_count /\ Range(players) = Ids)
    /\ [][AfterOpening => players' = players]_vars
    /\ [][pc = "make_opening_move" => turn' = 0]_vars
    /\ [][TurnEnds => turn' = (turn + 1) % player_count]_vars
    /\ [][AfterOpening /\ ~TurnEnds => turn' = turn]_vars
    /\ [][TurnBegins =>
            /\ current_player_id' = turn
            /\ turn > 0 => current_player_id = turn - 1]_vars
    /\ [][InTurn =>
            /\ current_player_id' = current_player_id
            /\ \A p \in Ids :
                    hand'[p] # hand[p] \/ is_move_available'[p] # is_move_available[p] =>
                        p = players[current_player_id + 1]]_vars

\* the second lap of a round of three players has begun, the opener's place in
\* the order is the last, and a player has been skipped in this round
C32_Witness ==
    /\ InTurn
    /\ player_count = 3
    /\ current_player_id = 0
    /\ Len(tiles) > 1
    /\ \E p \in Ids : ~is_move_available[p]
====
